---- MODULE Spec2Model ----
(***************************************************************************)
(* A model of lacale_check.py: the rate-limit aware HTTP wrapper http_get, *)
(* the query builder build_query, the tracker lookup lacale_search, the    *)
(* pre-dispatch ordering sort_items, the three thread-pool dispatchers,    *)
(* display, and the part of main that strings them together; and of the    *)
(* match scorer of the specification's section 4.4, which this variant of  *)
(* the program does not contain.                                           *)
(*                                                                         *)
(* Python values are encoded as follows.                                   *)
(*   - A string is the sequence of its character codes, so that lower()    *)
(*     and the ordering of strings are computed and not assumed.           *)
(*   - The value of a dict key that may be absent or null is a record      *)
(*     [tag, v]: tag "int" (the integer v), "none" (the key is present and *)
(*     holds None) or "missing" (the dict has no such key).                *)
(***************************************************************************)
EXTENDS Integers, Sequences, FiniteSets, TLC

VARIABLES
    pc,            \* where main is
    PASSKEY,       \* CFG["LACALE_PASSKEY"]: TRUE when it is a non-empty string
    mode,          \* args.mode
    radarr,        \* args.radarr (FALSE: --sonarr)
    items,         \* main's items
    sortArg,       \* args.sort ("" when the option is not given)
    sorted_items,  \* the result of sort_items: [raised, val]
    exit_code,     \* the status the process ends with (-1 while it runs)
    exit_msg,      \* the [ERROR] line main printed before sys.exit(1)
    limit,         \* args.limit, as the dispatcher received it
    ordered,       \* the list the dispatcher received (items or sorted_items)
    alltasks,      \* the dispatcher's task list before tasks[:limit]
    futs,          \* the submitted futures, in submission order
    out,           \* the dispatcher's out list
    outIdx,        \* for each entry of out, the future it came from
    coll,          \* the collecting loop: "wait", or "sleep" in time.sleep(DELAY)
    paced,         \* how many time.sleep(DELAY) calls have been made
    rows,          \* the rows main handed to display
    hide_present,  \* args.hide_present, as display received it
    filtered,      \* display's filtered
    table,         \* display's table
    query,         \* a call of build_query on its own: [t, s, e] and the q returned
    match          \* a call of the match scorer on its own, and what it returned

vars == << pc, PASSKEY, mode, radarr, items, sortArg, sorted_items, exit_code,
           exit_msg, limit, ordered, alltasks, futs, out, outIdx, coll, paced,
           rows, hide_present, filtered, table, query, match >>

(***************************************************************************)
(* Bounds of the model.                                                    *)
(***************************************************************************)
\* the longest list handed to sort_items on its own
SortMaxLen == 2
\* the largest --limit
MaxLimit == 2
\* the longest title handed to build_query on its own
MaxTitleLen == 3
\* the tasks of the dispatcher that has more tasks than workers
PoolTasks == 6

(***************************************************************************)
(* Program constants (section 2 of the source).                            *)
(***************************************************************************)
MAX_R == 3
BF == 2
\* workers, as main passes it to every dispatcher
WORKERS == 5

(***************************************************************************)
(* Values.                                                                 *)
(***************************************************************************)
IntV(n) == [tag |-> "int", v |-> n]
NoneV == [tag |-> "none", v |-> 0]
MissingV == [tag |-> "missing", v |-> 0]

\* dict.get(key, default) for an integer default
Get(field, default) == IF field.tag = "missing" THEN IntV(default) ELSE field

\* dict.get(key): None when the key is absent
GetOrNone(field) == IF field.tag = "missing" THEN NoneV ELSE field

Min(a, b) == IF a <= b THEN a ELSE b

Range(s) == {s[i] : i \in 1..Len(s)}

\* lst[:n], Python's slice: a negative n counts from the end
Slice(lst, n) ==
    IF n >= 0 THEN SubSeq(lst, 1, Min(n, Len(lst)))
    ELSE IF Len(lst) + n > 0 THEN SubSeq(lst, 1, Len(lst) + n)
    ELSE << >>

\* str.lower() on one character, then on a string
LowerChar(c) == IF c >= 65 /\ c <= 90 THEN c + 32 ELSE c
Lower(s) == [i \in 1..Len(s) |-> LowerChar(s[i])]

\* s < t for two strings (lexicographic on the codes)
RECURSIVE StrLess(_, _)
StrLess(s, t) ==
    IF t = << >> THEN FALSE
    ELSE IF s = << >> THEN TRUE
    ELSE IF Head(s) # Head(t) THEN Head(s) < Head(t)
    ELSE StrLess(Tail(s), Tail(t))

(***************************************************************************)
(* build_query.                                                            *)
(***************************************************************************)
\* the characters str.strip() removes among the codes below 128
IsSpace(c) == c \in {9, 10, 11, 12, 13, 28, 29, 30, 31, 32}

RECURSIVE LStrip(_)
LStrip(str) ==
    IF str # << >> /\ IsSpace(Head(str)) THEN LStrip(Tail(str)) ELSE str

RECURSIVE RStrip(_)
RStrip(str) ==
    IF str # << >> /\ IsSpace(str[Len(str)])
    THEN RStrip(SubSeq(str, 1, Len(str) - 1))
    ELSE str

\* t.strip()
Strip(str) == RStrip(LStrip(str))

\* the decimal digits of n >= 0
RECURSIVE Digits(_)
Digits(n) ==
    IF n < 10 THEN << 48 + n >> ELSE Digits(n \div 10) \o << 48 + (n % 10) >>

\* the number is written without padding
Format02dUnpadded(n) ==
    IF n < 0 THEN << 45 >> \o Digits(0 - n) ELSE Digits(n)

\* f"{n:02d}": the sign and the digits, zero-padded on the left to a width of
\* two, the sign counted in the width
Format02d(n) ==
    IF n < 0
    THEN << 45 >> \o Digits(0 - n)
    ELSE IF n < 10 THEN << 48 >> \o Digits(n) ELSE Digits(n)

\* build_query(t, s, e), s and e being None or an integer
build_query(t, s, e) ==
    LET q0 == Strip(t)
        q1 == IF s.tag # "none" THEN q0 \o << 32, 83 >> \o Format02d(s.v) ELSE q0
    IN  IF e.tag # "none" THEN q1 \o << 69 >> \o Format02d(e.v) ELSE q1

(***************************************************************************)
(* The match scorer (section 4.4 of the specification): score(local,       *)
(* remote) for a local record and one remote candidate, each with a size   *)
(* in bytes, a codec and a resolution that may be absent.                  *)
(***************************************************************************)
StrV(str) == [tag |-> "str", v |-> str]

Abs(n) == IF n < 0 THEN 0 - n ELSE n

\* the boundaries are exclusive
SizeSignalStrict(a, b) ==
    IF a.tag = "none" \/ b.tag = "none" THEN "none"
    ELSE IF Abs(a.v - b.v) <= (a.v + b.v - 1) \div 200 THEN "exact"
    ELSE IF Abs(a.v - b.v) <= (a.v + b.v - 1) \div 10 THEN "close"
    ELSE "none"

\* step 1: only when both sides have a size, the relative difference
\* |a - b| / ((a + b) / 2): at most 1% is the exact-size signal, otherwise at
\* most 20% the close-size signal.  For the integer |a - b|, being at most
\* (a + b) / 200 is being at most its integer part
SizeSignal(a, b) ==
    IF a.tag = "none" \/ b.tag = "none" THEN "none"
    ELSE IF Abs(a.v - b.v) <= (a.v + b.v) \div 200 THEN "exact"
    ELSE IF Abs(a.v - b.v) <= (a.v + b.v) \div 10 THEN "close"
    ELSE "none"

\* steps 2 and 3: case-insensitive equality when both are present
Matched(x, y) == x.tag # "none" /\ y.tag # "none" /\ Lower(x.v) = Lower(y.v)

\* steps 1 to 4: the classification and the confidence score
score(local, remote) ==
    LET size == SizeSignal(local.size, remote.size)
        codec == Matched(local.codec, remote.codec)
        res == Matched(local.resolution, remote.resolution)
        codecOk == local.codec.tag = "none" \/ remote.codec.tag = "none" \/ codec
        resOk == \/ local.resolution.tag = "none"
                 \/ remote.resolution.tag = "none"
                 \/ res
    IN  [classification |->
           IF size = "exact" /\ codecOk /\ resOk THEN "Exact"
           ELSE IF size = "close" \/ codec \/ res THEN "Close"
           ELSE "Different",
         confidenceScore |->
           (IF size = "exact" THEN 1000 ELSE IF size = "close" THEN 500 ELSE 0)
           + (IF codec THEN 300 ELSE 0) + (IF res THEN 200 ELSE 0)]

(***************************************************************************)
(* sort_items.                                                             *)
(***************************************************************************)
SortModes == {"oldest", "newest", "popular", "least-popular", "instant"}

\* newest takes 9999 for a missing year, which puts the item first
PrimaryKeyNewestFirst(x, m) ==
    CASE m = "oldest" -> Get(x.year, 9999)
      [] m = "newest" -> LET y == Get(x.year, 9999)
                         IN  IF y.tag = "int" THEN IntV(0 - y.v) ELSE y
      [] m \in {"popular", "least-popular"} -> Get(x.popularity, 0)
      [] OTHER -> IntV(0)

\* the primary key the lambda of each mode computes (a [tag, v] value)
PrimaryKey(x, m) ==
    CASE m = "oldest" -> Get(x.year, 9999)
      [] m = "newest" -> LET y == Get(x.year, 0)
                         IN  IF y.tag = "int" THEN IntV(0 - y.v) ELSE y
      [] m \in {"popular", "least-popular"} -> Get(x.popularity, 0)
      [] OTHER -> IntV(0)

\* every mode breaks ties on the title
HasTitleKeyAlways(m) == TRUE

\* whether the mode's key carries the case-folded title as a second component
HasTitleKey(m) == m \notin {"popular", "least-popular"}

\* key(x) < key(e) as Python compares the two keys, both primary keys integers
KeyLess(x, e, m) ==
    LET px == PrimaryKey(x, m).v
        pe == PrimaryKey(e, m).v
    IN  IF HasTitleKey(m)
        THEN \/ px < pe
             \/ px = pe /\ StrLess(Lower(x.title), Lower(e.title))
        ELSE px < pe

\* x has to come before e in the result: sorted() is ascending on the key,
\* descending with reverse=True, and keeps the input order of equal keys
Precedes(x, e, m) ==
    IF m = "popular" THEN KeyLess(e, x, m) ELSE KeyLess(x, e, m)

RECURSIVE InsertStable(_, _, _)
InsertStable(done, x, m) ==
    IF done = << >> THEN << x >>
    ELSE IF Precedes(x, Head(done), m) THEN << x >> \o done
    ELSE << Head(done) >> \o InsertStable(Tail(done), x, m)

RECURSIVE StableSort(_, _)
StableSort(lst, m) ==
    IF lst = << >> THEN << >>
    ELSE InsertStable(StableSort(SubSeq(lst, 1, Len(lst) - 1), m),
                      lst[Len(lst)], m)

\* sorted() raises TypeError: in newest the key negates None; in oldest a None
\* year is compared with an integer one as soon as the list holds both
SortRaises(lst, m) ==
    LET nones == {i \in 1..Len(lst) : lst[i].year.tag = "none"}
    IN  CASE m = "newest" -> nones # {}
          [] m = "oldest" -> nones # {} /\ nones # (1..Len(lst))
          [] OTHER -> FALSE

sort_items(lst, m) ==
    IF SortRaises(lst, m)
    THEN [raised |-> TRUE, val |-> << >>]
    ELSE [raised |-> FALSE, val |-> StableSort(lst, m)]


(***************************************************************************)
(* The items the source adapters yield.  A title is a string; year,        *)
(* popularity, season and episode are [tag, v] values; season_numbers is   *)
(* the list s.get("season_numbers", []) evaluates to.                      *)
(***************************************************************************)
Item(t, y, p, sns, s, e) ==
    [title |-> t, year |-> y, popularity |-> p, season_numbers |-> sns,
     season |-> s, episode |-> e]

\* Radarr movies "b" (1999) and "A" (2020), equally popular
Movies ==
    { Item(<<98>>, IntV(1999), IntV(2), << >>, MissingV, MissingV),
      Item(<<65>>, IntV(2020), IntV(2), << >>, MissingV, MissingV) }

\* Sonarr series "s" with seasons 0, 1 and 2, and "t" with none
Series ==
    { Item(<<115>>, IntV(2010), MissingV, <<0, 1, 2>>, MissingV, MissingV),
      Item(<<116>>, IntV(1995), MissingV, << >>, MissingV, MissingV) }

\* Sonarr episodes of "s": S01E01 and S02E10
Episodes ==
    { Item(<<115>>, IntV(2010), MissingV, << >>, IntV(1), IntV(1)),
      Item(<<115>>, IntV(2010), MissingV, << >>, IntV(2), IntV(10)) }

\* files of a folder: "c" (no year, no SxxEyy), "d" (2005, S01E02); the scan
\* stores None under the keys it could not fill
FolderItems ==
    { Item(<<99>>, NoneV, MissingV, << >>, NoneV, NoneV),
      Item(<<100>>, IntV(2005), MissingV, << >>, IntV(1), IntV(2)) }

\* the lists of distinct elements of pool, in any order
Lists(pool) ==
    { s \in UNION { [1..k -> pool] : k \in 0..Cardinality(pool) } :
        \A i, j \in 1..Len(s) : i # j => s[i] # s[j] }

\* what the adapter selected by the arguments may yield (lines 333-366)
SourceLists(m, r, folder) ==
    IF folder THEN Lists(FolderItems)
    ELSE IF r THEN Lists(Movies)
    ELSE IF m = "episode" THEN Lists(Episodes)
    ELSE Lists(Series)

Modes == {"full", "season", "episode"}
SortArgs == {""} \cup SortModes
Limits == (0 - 1)..MaxLimit
YearArgs == {NoneV, IntV(2000)}

\* in_range of main, for the --year-min / --year-max given
in_range(item, ymin, ymax) ==
    LET yr == GetOrNone(item.year)
    IN  /\ yr.tag # "none"
        /\ ~(ymin.tag # "none" /\ yr.v < ymin.v)
        /\ ~(ymax.tag # "none" /\ yr.v > ymax.v)

(***************************************************************************)
(* The tracker's answers and http_get.                                     *)
(***************************************************************************)
Answer(k, sh, hr, l) == [kind |-> k, shape |-> sh, has_results |-> hr, list |-> l]

\* requests.get raised (timeout, connection error), or returned with status
\* 429, another non-2xx status, or 2xx and a JSON body: a bare list, an object
\* with or without a results field, or any other JSON value
Responses ==
    { Answer("429", "none", FALSE, << >>),
      Answer("timeout", "none", FALSE, << >>),
      Answer("connerr", "none", FALSE, << >>),
      Answer("status", "none", FALSE, << >>),
      Answer("ok", "list", FALSE, << >>),
      Answer("ok", "list", FALSE, <<"hit">>),
      Answer("ok", "dict", TRUE, << >>),
      Answer("ok", "dict", TRUE, <<"hit">>),
      Answer("ok", "dict", FALSE, << >>),
      Answer("ok", "other", FALSE, << >>) }

NoResponse == Answer("", "none", FALSE, << >>)

\* the {} http_get returns on failure
EmptyDict == [shape |-> "dict", has_results |-> FALSE, list |-> << >>]
NoData == [shape |-> "none", has_results |-> FALSE, list |-> << >>]

\* r.json()
Json(r) == [shape |-> r.shape, has_results |-> r.has_results, list |-> r.list]

\* the wait grows linearly with the attempt: BF * attempt
PowLinear(b, k) == b * k

RECURSIVE Pow(_, _)
Pow(b, k) == IF k = 0 THEN 1 ELSE b * Pow(b, k - 1)

\* the handler misses the HTTPError of raise_for_status
CaughtTransportOnly(kind) == kind \in {"timeout", "connerr"}

\* the exceptions `except requests.RequestException` catches: the ones
\* requests.get raises and the HTTPError of raise_for_status
Caught(kind) == kind \in {"timeout", "connerr", "status"}

\* a 429 is retried once more than the budget allows
RetriesOffByOne(attempt) == attempt <= MAX_R

\* whether a 429 at this attempt is retried (line 61)
Retries(attempt) == attempt < MAX_R

\* a timeout is backed off and retried like a 429
HttpTurnRetryTimeout(attempt, r) ==
    IF r.kind \in {"429", "timeout"}
    THEN IF Retries(attempt)
         THEN [next |-> "sleep", wait |-> Pow(BF, attempt), data |-> NoData]
         ELSE [next |-> "return", wait |-> 0, data |-> EmptyDict]
    ELSE IF r.kind # "ok"
    THEN [next |-> "return", wait |-> 0, data |-> EmptyDict]
    ELSE [next |-> "return", wait |-> 0, data |-> Json(r)]

\* after a 429 the call has given up: a later success returns {} all the same
HttpTurnForgets(attempt, r) ==
    IF r.kind = "429"
    THEN IF Retries(attempt)
         THEN [next |-> "sleep", wait |-> Pow(BF, attempt), data |-> NoData]
         ELSE [next |-> "return", wait |-> 0, data |-> EmptyDict]
    ELSE IF r.kind # "ok" \/ attempt > 0
    THEN [next |-> "return", wait |-> 0, data |-> EmptyDict]
    ELSE [next |-> "return", wait |-> 0, data |-> Json(r)]

\* one turn of http_get's loop on the answer r: what the call does next
\* ("sleep": time.sleep(wait) and another turn; "return": return data;
\* "raise": the exception leaves http_get)
HttpTurn(attempt, r) ==
    IF r.kind = "429"
    THEN IF Retries(attempt)
         THEN [next |-> "sleep", wait |-> Pow(BF, attempt), data |-> NoData]
         ELSE [next |-> "return", wait |-> 0, data |-> EmptyDict]
    ELSE IF r.kind # "ok"
    THEN IF Caught(r.kind)
         THEN [next |-> "return", wait |-> 0, data |-> EmptyDict]
         ELSE [next |-> "raise", wait |-> 0, data |-> NoData]
    ELSE [next |-> "return", wait |-> 0, data |-> Json(r)]

\* the truth of the data itself is returned: bool(data)
lacale_search_data(data) ==
    \/ data.shape = "list" /\ data.list # << >>
    \/ data.shape = "dict" /\ data.has_results

\* lacale_search, from the data http_get returned: bool(results)
lacale_search(data) ==
    LET results == IF data.shape = "list" THEN data.list
                   ELSE IF data.shape = "dict"
                        THEN (IF data.has_results THEN data.list ELSE << >>)
                        ELSE << >>
    IN  results # << >>

\* check_one's row
Row(item, season, episode, present) ==
    [t |-> item.title, y |-> item.year, s |-> season, e |-> episode,
     present |-> present]

NoRow == [t |-> << >>, y |-> MissingV, s |-> NoneV, e |-> NoneV, present |-> FALSE]

(***************************************************************************)
(* The dispatchers.  A task is the item with the season and the episode    *)
(* that check_one receives; a future is a task with the state of its       *)
(* check_one call: st is "queued", "request" (a worker runs it and is      *)
(* about to call requests.get), "sleep" (in the back-off sleep) or "done". *)
(* q is the query lacale_search built for the call.                        *)
(* attempt is http_get's local; reqs and sleeps record the requests made   *)
(* and the waits slept by the running call, resp the last answer received, *)
(* warned whether the call printed a "[WARN] 429" line, data what http_get *)
(* returned.  The locals of a call end with it: a done future keeps        *)
(* warned, resp, data and its result (or that it raised).                  *)
(***************************************************************************)
Task(item, season, episode) == [item |-> item, season |-> season, episode |-> episode]

\* parallel_report: one task per item, no season, no episode
FullTasks(lst) == [i \in 1..Len(lst) |-> Task(lst[i], NoneV, NoneV)]

\* one task per series that has seasons, for its first season
RECURSIVE SeasonTasksFirstOnly(_)
SeasonTasksFirstOnly(lst) ==
    IF lst = << >> THEN << >>
    ELSE LET s == Head(lst)
         IN  (IF s.season_numbers = << >> THEN << >>
              ELSE << Task(s, IntV(s.season_numbers[1]), NoneV) >>)
             \o SeasonTasksFirstOnly(Tail(lst))

\* build_report_seasons: one task per (series, season number)
RECURSIVE SeasonTasks(_)
SeasonTasks(lst) ==
    IF lst = << >> THEN << >>
    ELSE LET s == Head(lst)
         IN  [k \in 1..Len(s.season_numbers) |->
                 Task(s, IntV(s.season_numbers[k]), NoneV)]
             \o SeasonTasks(Tail(lst))

\* build_report_episodes: one task per episode, with ep.get("season") and
\* ep.get("episode")
EpisodeTasks(lst) ==
    [i \in 1..Len(lst) |->
        Task(lst[i], GetOrNone(lst[i].season), GetOrNone(lst[i].episode))]

TasksOf(m, lst) ==
    CASE m = "full" -> FullTasks(lst)
      [] m = "season" -> SeasonTasks(lst)
      [] OTHER -> EpisodeTasks(lst)

\* every task is submitted (the limit would cut the results instead)
SelectedAll(tasks, lim) == tasks

\* the tasks the dispatcher keeps: items[:limit], tasks[:limit], episodes[:limit]
Selected(tasks, lim) == Slice(tasks, lim)

Future(task) ==
    [item |-> task.item, season |-> task.season, episode |-> task.episode,
     st |-> "queued", q |-> << >>, attempt |-> 0, reqs |-> 0, sleeps |-> << >>,
     warned |-> FALSE, resp |-> NoResponse, data |-> NoData, raised |-> FALSE,
     result |-> NoRow]

\* pool.submit for every selected task
Submit(sel) == [i \in 1..Len(sel) |-> Future(sel[i])]

Running == {i \in 1..Len(futs) : futs[i].st \in {"request", "sleep"}}
Queued == {i \in 1..Len(futs) : futs[i].st = "queued"}
Done == {i \in 1..Len(futs) : futs[i].st = "done"}
Collected == Range(outIdx)

\* a finished future is yielded again
YieldableAgain(i) == i \in Done

\* the future as_completed may yield next
Yieldable(i) == i \in Done /\ i \notin Collected

\* the test on the flag is inverted: the absent rows are hidden
FilterAbsent(rs, hide) == SelectSeq(rs, LAMBDA r : ~(hide /\ ~r.present))

\* display's filtered
Filter(rs, hide) == SelectSeq(rs, LAMBDA r : ~(hide /\ r.present))

\* display's table row for the mode's columns
TableRow(r, m) ==
    [t |-> r.t, y |-> r.y,
     s |-> IF m \in {"season", "episode"} THEN r.s ELSE NoneV,
     e |-> IF m = "episode" THEN r.e ELSE NoneV,
     pres |-> IF r.present THEN "Oui" ELSE "Non"]

NotSorted == [raised |-> FALSE, val |-> << >>]

\* build_query and the scorer have not been called on their own
NoQuery == [t |-> << >>, s |-> NoneV, e |-> NoneV, q |-> << >>]
NoMatch == [called |-> FALSE]

(***************************************************************************)
(* Initial state and actions of a run of main.                             *)
(***************************************************************************)
Blank ==
    /\ items = << >>
    /\ sortArg = ""
    /\ sorted_items = NotSorted
    /\ exit_code = 0 - 1
    /\ exit_msg = ""
    /\ limit = 0
    /\ ordered = << >>
    /\ alltasks = << >>
    /\ futs = << >>
    /\ out = << >>
    /\ outIdx = << >>
    /\ coll = "wait"
    /\ paced = 0
    /\ rows = << >>
    /\ hide_present = FALSE
    /\ filtered = << >>
    /\ table = << >>

Init ==
    /\ pc = "start"
    /\ PASSKEY \in BOOLEAN
    /\ mode \in Modes
    /\ radarr \in BOOLEAN
    /\ Blank
    /\ query = NoQuery
    /\ match = NoMatch

\* sys.exit(1) after the [ERROR] line msg
Fatal(msg) ==
    /\ pc' = "exit"
    /\ exit_code' = 1
    /\ exit_msg' = msg

\* an exception nothing catches: the traceback, and status 1
Crash ==
    /\ pc' = "crashed"
    /\ exit_code' = 1
    /\ exit_msg' = exit_msg

\* lines 318-328: the passkey, then --radarr with a season or episode mode
MainConfig ==
    /\ pc = "start"
    /\ IF ~PASSKEY THEN Fatal("PASSKEY manquant")
       ELSE IF radarr /\ mode # "full" THEN Fatal("mode impossible avec --radarr")
       ELSE pc' = "load" /\ UNCHANGED << exit_code, exit_msg >>
    /\ UNCHANGED << query, match >>
    /\ UNCHANGED << PASSKEY, mode, radarr, items, sortArg, sorted_items, limit,
                    ordered, alltasks, futs, out, outIdx, coll, paced, rows,
                    hide_present, filtered, table >>

\* lines 333-370: the source is read; an empty source is fatal
MainLoad ==
    /\ pc = "load"
    /\ \E folder \in {"", "notdir", "dir"} :
         IF folder = "notdir"
         THEN Fatal("n'est pas un repertoire") /\ items' = items
         ELSE \E lst \in SourceLists(mode, radarr, folder = "dir") :
                /\ items' = lst
                /\ IF lst = << >> THEN Fatal("Aucun element trouve")
                   ELSE pc' = "filter" /\ UNCHANGED << exit_code, exit_msg >>
    /\ UNCHANGED << query, match >>
    /\ UNCHANGED << PASSKEY, mode, radarr, sortArg, sorted_items, limit,
                    ordered, alltasks, futs, out, outIdx, coll, paced, rows,
                    hide_present, filtered, table >>

\* lines 375-388: the year filters; a filter that keeps nothing is fatal
MainFilter ==
    /\ pc = "filter"
    /\ \E ymin \in YearArgs, ymax \in YearArgs :
         IF ymin.tag = "none" /\ ymax.tag = "none"
         THEN pc' = "dispatch" /\ UNCHANGED << items, exit_code, exit_msg >>
         ELSE /\ items' = SelectSeq(items, LAMBDA it : in_range(it, ymin, ymax))
              /\ IF items' = << >>
                 THEN Fatal("Aucun element ne correspond aux filtres d'annee")
                 ELSE pc' = "dispatch" /\ UNCHANGED << exit_code, exit_msg >>
    /\ UNCHANGED << query, match >>
    /\ UNCHANGED << PASSKEY, mode, radarr, sortArg, sorted_items, limit,
                    ordered, alltasks, futs, out, outIdx, coll, paced, rows,
                    hide_present, filtered, table >>

\* lines 393-416 up to the submissions: in full mode with --sort the items go
\* through sort_items; the dispatcher builds its tasks, cuts them to the limit
\* and submits them
Dispatch ==
    /\ pc = "dispatch"
    /\ \E lim \in Limits, srt \in SortArgs :
         LET sorting == mode = "full" /\ srt # ""
             res == IF sorting THEN sort_items(items, srt) ELSE NotSorted
             input == IF sorting THEN res.val ELSE items
             tasks == TasksOf(mode, input)
         IN  /\ sortArg' = IF mode = "full" THEN srt ELSE sortArg
             /\ sorted_items' = res
             /\ IF res.raised
                THEN Crash /\ UNCHANGED << limit, ordered, alltasks, futs >>
                ELSE /\ pc' = "collect"
                     /\ limit' = lim
                     /\ ordered' = input
                     /\ alltasks' = tasks
                     /\ futs' = Submit(Selected(tasks, lim))
                     /\ UNCHANGED << exit_code, exit_msg >>
    /\ UNCHANGED << query, match >>
    /\ UNCHANGED << PASSKEY, mode, radarr, items, out, outIdx, coll, paced,
                    rows, hide_present, filtered, table >>

\* every submitted task gets a thread of its own
WorkerStartUnbounded(i) ==
    /\ pc = "collect"
    /\ i \in Queued
    /\ \A j \in Queued : i <= j
    /\ futs' = [futs EXCEPT ![i].st = "request",
                             ![i].q = build_query(futs[i].item.title,
                                                  futs[i].season, futs[i].episode)]
    /\ UNCHANGED << query, match >>
    /\ UNCHANGED << pc, PASSKEY, mode, radarr, items, sortArg, sorted_items,
                    exit_code, exit_msg, limit, ordered, alltasks, out, outIdx,
                    coll, paced, rows, hide_present, filtered, table >>

\* a free worker of the pool takes the oldest queued task: check_one calls
\* lacale_search, which builds the query (line 140)
WorkerStart(i) ==
    /\ pc = "collect"
    /\ i \in Queued
    /\ \A j \in Queued : i <= j
    /\ Cardinality(Running) < WORKERS
    /\ futs' = [futs EXCEPT ![i].st = "request",
                             ![i].q = build_query(futs[i].item.title,
                                                  futs[i].season, futs[i].episode)]
    /\ UNCHANGED << query, match >>
    /\ UNCHANGED << pc, PASSKEY, mode, radarr, items, sortArg, sorted_items,
                    exit_code, exit_msg, limit, ordered, alltasks, out, outIdx,
                    coll, paced, rows, hide_present, filtered, table >>

\* check_one -> lacale_search -> http_get: one turn of the loop of lines 57-73,
\* on an answer r of requests.get among answers; when http_get returns,
\* lacale_search and check_one finish and the future is done
RequestOn(i, answers) ==
    /\ pc = "collect"
    /\ i \in 1..Len(futs)
    /\ futs[i].st = "request"
    /\ \E r \in answers :
         LET f == futs[i]
             turn == HttpTurn(f.attempt, r)
         IN  futs' = [futs EXCEPT ![i] =
               CASE turn.next = "sleep" ->
                      [f EXCEPT !.st = "sleep", !.reqs = f.reqs + 1, !.resp = r,
                                !.warned = TRUE,
                                !.sleeps = Append(f.sleeps, turn.wait)]
                 [] turn.next = "return" ->
                      [f EXCEPT !.st = "done", !.attempt = 0, !.reqs = 0,
                                !.sleeps = << >>, !.resp = r, !.data = turn.data,
                                !.result = Row(f.item, f.season, f.episode,
                                               lacale_search(turn.data))]
                 [] OTHER ->
                      [f EXCEPT !.st = "done", !.attempt = 0, !.reqs = 0,
                                !.sleeps = << >>, !.resp = r, !.raised = TRUE]]
    /\ UNCHANGED << query, match >>
    /\ UNCHANGED << pc, PASSKEY, mode, radarr, items, sortArg, sorted_items,
                    exit_code, exit_msg, limit, ordered, alltasks, out, outIdx,
                    coll, paced, rows, hide_present, filtered, table >>

\* a turn of a call of the run, the tracker free to answer anything
Request(i) == RequestOn(i, Responses)

\* attempt is one counter of the module, shared by the calls in progress
BackoffWakeShared(i) ==
    /\ pc = "collect"
    /\ i \in 1..Len(futs)
    /\ futs[i].st = "sleep"
    /\ futs' = [j \in 1..Len(futs) |->
                 IF j = i
                 THEN [futs[j] EXCEPT !.st = "request", !.attempt = @ + 1]
                 ELSE IF futs[j].st \in {"request", "sleep"}
                      THEN [futs[j] EXCEPT !.attempt = @ + 1]
                      ELSE futs[j]]
    /\ UNCHANGED << query, match >>
    /\ UNCHANGED << pc, PASSKEY, mode, radarr, items, sortArg, sorted_items,
                    exit_code, exit_msg, limit, ordered, alltasks, out, outIdx,
                    coll, paced, rows, hide_present, filtered, table >>

\* time.sleep(wait) is over: attempt += 1; continue (lines 66-68)
BackoffWake(i) ==
    /\ pc = "collect"
    /\ i \in 1..Len(futs)
    /\ futs[i].st = "sleep"
    /\ futs' = [futs EXCEPT ![i].st = "request", ![i].attempt = futs[i].attempt + 1]
    /\ UNCHANGED << query, match >>
    /\ UNCHANGED << pc, PASSKEY, mode, radarr, items, sortArg, sorted_items,
                    exit_code, exit_msg, limit, ordered, alltasks, out, outIdx,
                    coll, paced, rows, hide_present, filtered, table >>

\* the result is appended and the loop goes on without the pacing delay
CollectNoSleep(i) ==
    /\ pc = "collect"
    /\ coll = "wait"
    /\ Yieldable(i)
    /\ IF futs[i].raised
       THEN Crash /\ UNCHANGED << out, outIdx >>
       ELSE /\ out' = Append(out, futs[i].result)
            /\ outIdx' = Append(outIdx, i)
            /\ UNCHANGED << pc, exit_code, exit_msg >>
    /\ UNCHANGED << query, match >>
    /\ UNCHANGED << PASSKEY, mode, radarr, items, sortArg, sorted_items, limit,
                    ordered, alltasks, futs, coll, paced, rows, hide_present,
                    filtered, table >>

\* as_completed yields a finished future: out.append(f.result()), and the
\* exception of a future that raised leaves the dispatcher and main
Collect(i) ==
    /\ pc = "collect"
    /\ coll = "wait"
    /\ Yieldable(i)
    /\ IF futs[i].raised
       THEN Crash /\ UNCHANGED << out, outIdx, coll >>
       ELSE /\ out' = Append(out, futs[i].result)
            /\ outIdx' = Append(outIdx, i)
            /\ coll' = "sleep"
            /\ UNCHANGED << pc, exit_code, exit_msg >>
    /\ UNCHANGED << query, match >>
    /\ UNCHANGED << PASSKEY, mode, radarr, items, sortArg, sorted_items, limit,
                    ordered, alltasks, futs, paced, rows, hide_present,
                    filtered, table >>

\* the delay is slept between two results only, not after the last one
PaceBetween ==
    /\ pc = "collect"
    /\ coll = "sleep"
    /\ coll' = "wait"
    /\ paced' = IF Collected = 1..Len(futs) THEN paced ELSE paced + 1
    /\ UNCHANGED << query, match >>
    /\ UNCHANGED << pc, PASSKEY, mode, radarr, items, sortArg, sorted_items,
                    exit_code, exit_msg, limit, ordered, alltasks, futs, out,
                    outIdx, rows, hide_present, filtered, table >>

\* time.sleep(DELAY) after the append
Pace ==
    /\ pc = "collect"
    /\ coll = "sleep"
    /\ coll' = "wait"
    /\ paced' = paced + 1
    /\ UNCHANGED << query, match >>
    /\ UNCHANGED << pc, PASSKEY, mode, radarr, items, sortArg, sorted_items,
                    exit_code, exit_msg, limit, ordered, alltasks, futs, out,
                    outIdx, rows, hide_present, filtered, table >>

\* the dispatcher returns without waiting for the tasks still pending
ReturnEarly ==
    /\ pc = "collect"
    /\ coll = "wait"
    /\ rows' = out
    /\ pc' = "display"
    /\ UNCHANGED << query, match >>
    /\ UNCHANGED << PASSKEY, mode, radarr, items, sortArg, sorted_items,
                    exit_code, exit_msg, limit, ordered, alltasks, futs, out,
                    outIdx, coll, paced, hide_present, filtered, table >>

\* as_completed is exhausted: the dispatcher returns out to main
Return ==
    /\ pc = "collect"
    /\ coll = "wait"
    /\ Collected = 1..Len(futs)
    /\ rows' = out
    /\ pc' = "display"
    /\ UNCHANGED << query, match >>
    /\ UNCHANGED << PASSKEY, mode, radarr, items, sortArg, sorted_items,
                    exit_code, exit_msg, limit, ordered, alltasks, futs, out,
                    outIdx, coll, paced, hide_present, filtered, table >>

\* display: filtered, then the table that is printed and exported
Display ==
    /\ pc = "display"
    /\ \E hide \in BOOLEAN :
         /\ hide_present' = hide
         /\ filtered' = Filter(rows, hide)
         /\ table' = [k \in 1..Len(filtered') |-> TableRow(filtered'[k], mode)]
    /\ pc' = "done"
    /\ exit_code' = 0
    /\ UNCHANGED << query, match >>
    /\ UNCHANGED << PASSKEY, mode, radarr, items, sortArg, sorted_items,
                    exit_msg, limit, ordered, alltasks, futs, out, outIdx, coll,
                    paced, rows >>

Next ==
    \/ MainConfig
    \/ MainLoad
    \/ MainFilter
    \/ Dispatch
    \/ \E i \in 1..Len(futs) : WorkerStart(i)
    \/ \E i \in 1..Len(futs) : Request(i)
    \/ \E i \in 1..Len(futs) : BackoffWake(i)
    \/ \E i \in 1..Len(futs) : Collect(i)
    \/ Pace
    \/ Return
    \/ Display

Spec == Init /\ [][Next]_vars


(***************************************************************************)
(* sort_items on its own: every list of at most SortMaxLen items, in every *)
(* mode main can pass.                                                     *)
(***************************************************************************)
SortPool ==
    { Item(t, y, p, << >>, MissingV, MissingV) :
        t \in {<<97>>, <<65>>, <<66>>},
        y \in {MissingV, NoneV, IntV(0), IntV(1999), IntV(2020)},
        p \in {MissingV, IntV(1), IntV(2)} }

SortInputs == UNION { [1..k -> SortPool] : k \in 0..SortMaxLen }

InitSort ==
    /\ pc = "sort"
    /\ PASSKEY = TRUE
    /\ mode = "full"
    /\ radarr = FALSE
    /\ items \in SortInputs
    /\ sortArg \in SortModes
    /\ sorted_items = NotSorted
    /\ exit_code = 0 - 1
    /\ exit_msg = ""
    /\ limit = 0
    /\ ordered = << >>
    /\ alltasks = << >>
    /\ futs = << >>
    /\ out = << >>
    /\ outIdx = << >>
    /\ coll = "wait"
    /\ paced = 0
    /\ rows = << >>
    /\ hide_present = FALSE
    /\ filtered = << >>
    /\ table = << >>
    /\ query = NoQuery
    /\ match = NoMatch

\* the call sort_items(items, args.sort) of line 395
SortCall ==
    /\ pc = "sort"
    /\ sorted_items' = sort_items(items, sortArg)
    /\ pc' = "sorted"
    /\ UNCHANGED << query, match >>
    /\ UNCHANGED << PASSKEY, mode, radarr, items, sortArg, exit_code, exit_msg,
                    limit, ordered, alltasks, futs, out, outIdx, coll, paced,
                    rows, hide_present, filtered, table >>

NextSort == SortCall

SpecSort == InitSort /\ [][NextSort]_vars

(***************************************************************************)
(* A dispatcher with more tasks than workers: build_report_seasons on one  *)
(* series of PoolTasks seasons with the default --limit, from the moment   *)
(* the tasks are submitted.  The tracker rate-limits the lookups of the    *)
(* first season or leaves them unanswered, and answers the lookups of the  *)
(* other seasons with a hit.                                               *)
(***************************************************************************)
PoolSeries ==
    Item(<< 115 >>, IntV(2010), MissingV, [k \in 1..PoolTasks |-> k],
         MissingV, MissingV)

\* the default of --limit (line 297)
DefaultLimit == 10

PoolResponses(i) ==
    IF i = 1
    THEN { Answer("429", "none", FALSE, << >>),
           Answer("timeout", "none", FALSE, << >>) }
    ELSE { Answer("ok", "list", FALSE, <<"hit">>) }

InitPool ==
    /\ pc = "collect"
    /\ PASSKEY = TRUE
    /\ mode = "season"
    /\ radarr = FALSE
    /\ items = << PoolSeries >>
    /\ sortArg = ""
    /\ sorted_items = NotSorted
    /\ exit_code = 0 - 1
    /\ exit_msg = ""
    /\ limit = DefaultLimit
    /\ ordered = items
    /\ alltasks = SeasonTasks(items)
    /\ futs = Submit(Selected(alltasks, limit))
    /\ out = << >>
    /\ outIdx = << >>
    /\ coll = "wait"
    /\ paced = 0
    /\ rows = << >>
    /\ hide_present = FALSE
    /\ filtered = << >>
    /\ table = << >>
    /\ query = NoQuery
    /\ match = NoMatch

\* a turn of call i on one of the answers the tracker has for it
RequestPool(i) == RequestOn(i, PoolResponses(i))

NextPool ==
    \/ \E i \in 1..Len(futs) : WorkerStart(i)
    \/ \E i \in 1..Len(futs) : RequestPool(i)
    \/ \E i \in 1..Len(futs) : BackoffWake(i)
    \/ \E i \in 1..Len(futs) : Collect(i)
    \/ Pace
    \/ Return

SpecPool == InitPool /\ [][NextPool]_vars

\* the dispatcher under fair scheduling: as long as the collecting loop or a
\* worker can take a step, one of them does; requests.get is given a timeout
\* (line 59), so the step of a worker waiting for an answer is always possible
FairPool == SpecPool /\ WF_vars(NextPool)

(***************************************************************************)
(* build_query on its own: every title of at most MaxTitleLen characters   *)
(* of TitleChars, with and without a season and an episode.                *)
(***************************************************************************)
\* space, "1", "E", "S", "a"
TitleChars == {32, 49, 69, 83, 97}

Titles == UNION { [1..k -> TitleChars] : k \in 0..MaxTitleLen }

\* no number, or a season or episode number of one to four digits
QueryNumbers ==
    { NoneV, IntV(0), IntV(7), IntV(10), IntV(99), IntV(100), IntV(1234) }

InitQuery ==
    /\ pc = "query"
    /\ PASSKEY = TRUE
    /\ mode = "full"
    /\ radarr = FALSE
    /\ Blank
    /\ query \in [t : Titles, s : QueryNumbers, e : QueryNumbers, q : {<< >>}]
    /\ match = NoMatch

\* the call build_query(t, s, e) of line 140
QueryCall ==
    /\ pc = "query"
    /\ query' = [query EXCEPT !.q = build_query(query.t, query.s, query.e)]
    /\ pc' = "queried"
    /\ UNCHANGED << PASSKEY, mode, radarr, items, sortArg, sorted_items,
                    exit_code, exit_msg, limit, ordered, alltasks, futs, out,
                    outIdx, coll, paced, rows, hide_present, filtered, table,
                    match >>

NextQuery == QueryCall

SpecQuery == InitQuery /\ [][NextQuery]_vars

(***************************************************************************)
(* The match scorer on its own, on every pair of records of Metas.         *)
(***************************************************************************)
\* absent; 199 and 201 (1% apart); 90 and 110 (20% apart); the two sizes of
\* the specification's scenario
Sizes ==
    { NoneV, IntV(199), IntV(201), IntV(90), IntV(110),
      IntV(1000000000), IntV(1005000000) }

\* absent, "h264", "H264", "h265"
Codecs ==
    { NoneV, StrV(<< 104, 50, 54, 52 >>), StrV(<< 72, 50, 54, 52 >>),
      StrV(<< 104, 50, 54, 53 >>) }

\* absent, "1080p", "720p"
Resolutions ==
    { NoneV, StrV(<< 49, 48, 56, 48, 112 >>), StrV(<< 55, 50, 48, 112 >>) }

Metas == [size : Sizes, codec : Codecs, resolution : Resolutions]

InitScore ==
    /\ pc = "score"
    /\ PASSKEY = TRUE
    /\ mode = "full"
    /\ radarr = FALSE
    /\ Blank
    /\ query = NoQuery
    /\ match \in [called : {FALSE}, local : Metas, remote : Metas,
                   result : {[classification |-> "", confidenceScore |-> 0]}]

\* the call score(local, remote)
ScoreCall ==
    /\ pc = "score"
    /\ match' = [match EXCEPT !.called = TRUE,
                               !.result = score(match.local, match.remote)]
    /\ pc' = "scored"
    /\ UNCHANGED << PASSKEY, mode, radarr, items, sortArg, sorted_items,
                    exit_code, exit_msg, limit, ordered, alltasks, futs, out,
                    outIdx, coll, paced, rows, hide_present, filtered, table,
                    query >>

NextScore == ScoreCall

SpecScore == InitScore /\ [][NextScore]_vars

(***************************************************************************)
(* Properties.                                                             *)
(***************************************************************************)
Futs == 1..Len(futs)
Failures == {"timeout", "connerr", "status"}

\* future i received an answer of one of the kinds in this step
Answered(i, kinds) ==
    /\ futs[i].st = "request"
    /\ futs'[i] # futs[i]
    /\ futs'[i].resp.kind \in kinds

\* the dispatcher has returned
Returned == pc \in {"display", "done"}

\* C1: a call that only ever receives 429 makes exactly MAX_R + 1 requests:
\* a running call has made at most MAX_R requests, all answered 429; on a 429
\* it sleeps and goes on while fewer than MAX_R requests came before, and on
\* the 429 that answers request MAX_R + 1 it returns {} without raising (the
\* row says absent) and makes no further request
C1_RetryBound ==
    /\ [](\A i \in Futs :
            futs[i].st \in {"request", "sleep"} =>
              /\ futs[i].reqs <= MAX_R
              /\ futs[i].reqs > 0 => futs[i].resp.kind = "429")
    /\ [][\A i \in Futs :
            Answered(i, {"429"}) =>
              IF futs[i].reqs + 1 = MAX_R + 1
              THEN /\ futs'[i].st = "done"
                   /\ ~futs'[i].raised
                   /\ futs'[i].data = EmptyDict
                   /\ ~futs'[i].result.present
              ELSE futs'[i].st = "sleep"]_vars
    /\ [][\A i \in Futs : futs[i].st = "done" => futs'[i] = futs[i]]_vars

\* a call has returned on its fourth 429
C1_Witness ==
    \E i \in Futs :
      futs[i].st = "done" /\ futs[i].resp.kind = "429" /\ futs[i].data = EmptyDict

\* C2: when a dispatcher returns, its rows are the results of the submitted
\* futures, each exactly once, whatever the order they finished in; and the
\* futures are the selected tasks, one each
C2_OneRowPerTask ==
    /\ \A k, l \in 1..Len(outIdx) : k # l => outIdx[k] # outIdx[l]
    /\ Len(out) = Len(outIdx)
    /\ Returned =>
         /\ Len(rows) = Len(futs)
         /\ Range(outIdx) = Futs
         /\ \A k \in 1..Len(rows) :
              LET f == futs[outIdx[k]]
              IN  /\ rows[k] = f.result
                  /\ rows[k].t = f.item.title
                  /\ rows[k].s = f.season
                  /\ rows[k].e = f.episode
         /\ \A i \in Futs :
              /\ futs[i].item = alltasks[i].item
              /\ futs[i].season = alltasks[i].season
              /\ futs[i].episode = alltasks[i].episode

\* a dispatcher has returned two rows collected against submission order
C2_Witness ==
    /\ pc = "done"
    /\ outIdx = <<2, 1>>
    /\ rows[1] # rows[2]

\* the row a task must get from the last answer to its own lookup
ExpectedPresent(r) ==
    /\ r.kind = "ok"
    /\ r.list # << >>
    /\ r.shape = "list" \/ (r.shape = "dict" /\ r.has_results)

\* C3: no check_one call raises and no dispatcher is aborted; a task whose
\* lookup failed gets a row marked absent; every task's row depends on its own
\* task and on the last answer to its own lookup only; and every task has its
\* row when the dispatcher returns
C3_FailureIsolation ==
    /\ futs # << >> => pc # "crashed"
    /\ \A i \in Futs :
         futs[i].st = "done" =>
           /\ ~futs[i].raised
           /\ futs[i].resp.kind \in Failures \cup {"429"} =>
                ~futs[i].result.present
           /\ futs[i].resp.kind = "ok" /\ futs[i].data.shape = "other" =>
                ~futs[i].result.present
           /\ futs[i].result = Row(futs[i].item, futs[i].season, futs[i].episode,
                                   ExpectedPresent(futs[i].resp))
    /\ Returned =>
         \A i \in Futs : \E k \in 1..Len(rows) :
           outIdx[k] = i /\ rows[k] = futs[i].result

\* a batch has finished in which one lookup ran out of retries and another
\* task was found present
C3_Witness ==
    /\ pc = "done"
    /\ \E i, j \in Futs :
         /\ i # j
         /\ futs[i].resp.kind = "429"
         /\ futs[j].result.present
         /\ \E k \in 1..Len(rows) : outIdx[k] = i /\ ~rows[k].present

\* C4: on a timeout, a connection error or a non-2xx status other than 429
\* the call is over in that very turn: it returns {} without raising and
\* without a back-off sleep, whatever came before, and a call that is over
\* makes no further request
C4_NoRetryOnFailure ==
    /\ [][\A i \in Futs :
            Answered(i, Failures) =>
              /\ futs'[i].st = "done"
              /\ ~futs'[i].raised
              /\ futs'[i].data = EmptyDict]_vars
    /\ [][\A i \in Futs : futs[i].st = "done" => futs'[i] = futs[i]]_vars
    /\ [](\A i \in Futs :
            futs[i].st = "sleep" => futs[i].resp.kind = "429")

\* a call has returned on a failure that followed a 429 of the same call
C4_Witness ==
    \E i \in Futs :
      /\ futs[i].st = "done"
      /\ futs[i].resp.kind \in Failures
      /\ futs[i].warned
      /\ futs[i].data = EmptyDict

\* the dispatcher has been called
Dispatched == pc \in {"collect", "display", "done"}

\* C5: with a limit >= 0 the submitted futures are the first min(limit, n)
\* of the n tasks, in order, and no more than limit lookups ever start; in
\* full mode with --sort the tasks are the items in the order of sort_items
C5_LimitBeforeDispatch ==
    Dispatched =>
      /\ limit >= 0 =>
           /\ Len(futs) = Min(limit, Len(alltasks))
           /\ \A i \in Futs :
                /\ futs[i].item = alltasks[i].item
                /\ futs[i].season = alltasks[i].season
                /\ futs[i].episode = alltasks[i].episode
           /\ Cardinality({i \in Futs : futs[i].st # "queued"}) <= limit
      /\ mode = "full" /\ sortArg # "" =>
           /\ ordered = sort_items(items, sortArg).val
           /\ alltasks = FullTasks(ordered)
      /\ mode = "full" /\ sortArg = "" => alltasks = FullTasks(items)

\* the sort decided which item was looked up: with limit 1, the item
\* dispatched is not the first of the source's order
C5_Witness ==
    /\ pc = "done"
    /\ mode = "full"
    /\ sortArg = "newest"
    /\ limit = 1
    /\ Len(items) = 2
    /\ Len(futs) = 1
    /\ futs[1].item = items[2]

\* sort_items has been called on its own and is back
Sorted == pc = "sorted"

Val == sorted_items.val

\* the bijections of 1..n
Bijections(n) ==
    {f \in [1..n -> 1..n] : \A i, j \in 1..n : i # j => f[i] # f[j]}

\* the orders the same items can come in
Reorderings(lst) ==
    {[k \in 1..Len(lst) |-> lst[f[k]]] : f \in Bijections(Len(lst))}

\* the primary key the specification names for a mode: the year (9999 or 0
\* when the key is absent), negated for newest; the popularity (0 when
\* absent), negated for popular
ClaimPrimary(x, m) ==
    CASE m = "oldest" -> IF x.year.tag = "int" THEN x.year.v ELSE 9999
      [] m = "newest" -> IF x.year.tag = "int" THEN 0 - x.year.v ELSE 0
      [] m = "popular" ->
           IF x.popularity.tag = "int" THEN 0 - x.popularity.v ELSE 0
      [] m = "least-popular" ->
           IF x.popularity.tag = "int" THEN x.popularity.v ELSE 0
      [] OTHER -> 0

NoNullYear(lst) == \A i \in 1..Len(lst) : lst[i].year.tag # "none"

ClaimKeyLess(x, y, m) ==
    \/ ClaimPrimary(x, m) < ClaimPrimary(y, m)
    \/ /\ ClaimPrimary(x, m) = ClaimPrimary(y, m)
       /\ m \in {"oldest", "newest", "instant"}
       /\ StrLess(Lower(x.title), Lower(y.title))

ConfigOrEmptyInput ==
    { "PASSKEY manquant", "mode impossible avec --radarr",
      "n'est pas un repertoire", "Aucun element trouve",
      "Aucun element ne correspond aux filtres d'annee" }

\* C8: a run that ends with a non-zero status ends on a configuration or
\* empty-input error and, like every run that printed one, has issued no
\* tracker lookup
C8_OnlyConfigFatal ==
    /\ exit_code \notin {0 - 1, 0} => exit_msg \in ConfigOrEmptyInput
    /\ exit_msg # "" =>
         /\ exit_msg \in ConfigOrEmptyInput
         /\ pc = "exit"
         /\ exit_code # 0
         /\ futs = << >>
    /\ pc = "exit" =>
         \/ ~PASSKEY
         \/ radarr /\ mode # "full"
         \/ exit_msg = "n'est pas un repertoire"
         \/ items = << >>

\* the candidate list of the last answer to a lookup
Candidates(r) ==
    IF r.kind # "ok" THEN << >>
    ELSE IF r.shape = "list" THEN r.list
    ELSE IF r.shape = "dict" /\ r.has_results THEN r.list
    ELSE << >>

\* C9: a finished lookup says absent exactly when the candidate list of its
\* answer is empty
C9_AbsentIffNoCandidate ==
    \A i \in Futs :
      futs[i].st = "done" =>
        (~futs[i].result.present <=> Candidates(futs[i].resp) = << >>)

\* one lookup found a hit under results and another, answered 200 with an
\* object holding an empty results list, reports absent
C9_Witness ==
    \E i, j \in Futs :
      /\ futs[i].st = "done" /\ futs[j].st = "done"
      /\ futs[i].resp.shape = "dict" /\ futs[i].resp.list # << >>
      /\ futs[i].result.present
      /\ futs[j].resp.kind = "ok" /\ futs[j].resp.shape = "dict"
      /\ futs[j].resp.has_results /\ futs[j].resp.list = << >>
      /\ ~futs[j].result.present

\* the strictly increasing maps of 1..m into 1..n
Increasing(m, n) ==
    {f \in [1..m -> 1..n] : \A k, l \in 1..m : k < l => f[k] < f[l]}

\* C10: what display prints and exports is, row for row, filtered; filtered
\* is a subsequence of the dispatcher's rows in their order; with
\* hide_present it holds exactly the absent rows, without it every row
C10_FilterKeepsOrder ==
    pc = "done" =>
      /\ Len(table) = Len(filtered)
      /\ \A k \in 1..Len(table) :
           /\ table[k].t = filtered[k].t
           /\ table[k].pres = IF filtered[k].present THEN "Oui" ELSE "Non"
      /\ \E f \in Increasing(Len(filtered), Len(rows)) :
           \A k \in 1..Len(filtered) : filtered[k] = rows[f[k]]
      /\ hide_present =>
           /\ \A k \in 1..Len(filtered) : ~filtered[k].present
           /\ Len(filtered) = Cardinality({k \in 1..Len(rows) : ~rows[k].present})
      /\ ~hide_present => filtered = rows

\* with hide_present a present row has been removed from in front of an
\* absent one
C10_Witness ==
    /\ pc = "done"
    /\ hide_present
    /\ Len(rows) = 2
    /\ rows[1].present
    /\ ~rows[2].present
    /\ filtered = << rows[2] >>
    /\ Len(table) = 1

IsDigit(c) == c >= 48 /\ c <= 57

\* the digits a string ends with
RECURSIVE TrailingDigits(_)
TrailingDigits(str) ==
    IF str # << >> /\ IsDigit(str[Len(str)])
    THEN TrailingDigits(SubSeq(str, 1, Len(str) - 1)) \o << str[Len(str)] >>
    ELSE << >>

\* the number a string of digits reads as
RECURSIVE ToNat(_)
ToNat(ds) ==
    IF ds = << >> THEN 0
    ELSE 10 * ToNat(SubSeq(ds, 1, Len(ds) - 1)) + (ds[Len(ds)] - 48)

DropLast(str, n) == SubSeq(str, 1, Len(str) - n)

\* ds writes n zero-padded to two digits, wider numbers in their own width
WritesNumber(ds, n) ==
    /\ Len(ds) >= 2
    /\ ToNat(ds) = n
    /\ Len(ds) > 2 => ds[1] # 48

\* x is t without the whitespace t begins and ends with
IsTrimOf(x, t) ==
    /\ x # << >> => ~IsSpace(x[1]) /\ ~IsSpace(x[Len(x)])
    /\ \E i \in 0..Len(t) :
         /\ i + Len(x) <= Len(t)
         /\ SubSeq(t, i + 1, i + Len(x)) = x
         /\ \A k \in (1..i) \cup ((i + Len(x) + 1)..Len(t)) : IsSpace(t[k])

\* C11: the query ends with "E" and the episode in two digits or more when an
\* episode is given, before that with " S" and the season in two digits or
\* more when a season is given, and what is left once these are taken off the
\* end is the title without its leading and trailing whitespace
C11_QueryFormat ==
    pc = "queried" =>
      LET q == query.q
          hasS == query.s.tag = "int"
          hasE == query.e.tag = "int"
          eDigits == IF hasE THEN TrailingDigits(q) ELSE << >>
          q1 == IF hasE THEN DropLast(q, Len(eDigits) + 1) ELSE q
          sDigits == IF hasS THEN TrailingDigits(q1) ELSE << >>
          q0 == IF hasS THEN DropLast(q1, Len(sDigits) + 2) ELSE q1
      IN  /\ hasE =>
               /\ WritesNumber(eDigits, query.e.v)
               /\ Len(q) > Len(eDigits)
               /\ q[Len(q) - Len(eDigits)] = 69
          /\ hasS =>
               /\ WritesNumber(sDigits, query.s.v)
               /\ Len(q1) > Len(sDigits) + 1
               /\ SubSeq(q1, Len(q1) - Len(sDigits) - 1, Len(q1) - Len(sDigits))
                    = << 32, 83 >>
          /\ IsTrimOf(q0, query.t)

\* " a " with season 100 and episode 7 has given "a S100E07"
C11_Witness ==
    /\ pc = "queried"
    /\ query.t = << 32, 97, 32 >>
    /\ query.s = IntV(100)
    /\ query.e = IntV(7)
    /\ query.q = << 97, 32, 83, 49, 48, 48, 69, 48, 55 >>

\* the relative difference of two sizes is at most one k-th of their mean:
\* k * |a - b| <= (a + b) / 2, the product kept within 32 bits
WithinFraction(a, b, k) ==
    /\ Abs(a - b) <= 2147483647 \div (2 * k)
    /\ 2 * k * Abs(a - b) <= a + b

\* the local record and the candidate of the specification's scenario
Scenario ==
    [size |-> IntV(1000000000), codec |-> StrV(<< 104, 50, 54, 52 >>),
     resolution |-> StrV(<< 49, 48, 56, 48, 112 >>)]

\* C12: the pair is Exact when both sizes are there and differ by at most 1%
\* and codec and resolution are each absent on one side or equal; otherwise
\* Close when the sizes differ by more than 1% and at most 20%, or the codecs
\* or the resolutions are equal; otherwise Different; the score is 1000 or
\* 500 for the size signal, plus 300 for equal codecs, plus 200 for equal
\* resolutions; the scenario's pair is Exact with 1500
C12_Scorer ==
    pc = "scored" =>
      LET l == match.local
          r == match.remote
          sizes == l.size.tag = "int" /\ r.size.tag = "int"
          exactSize == sizes /\ WithinFraction(l.size.v, r.size.v, 100)
          closeSize == sizes /\ ~exactSize /\ WithinFraction(l.size.v, r.size.v, 5)
          absent(x, y) == x.tag = "none" \/ y.tag = "none"
          equal(x, y) == ~absent(x, y) /\ Lower(x.v) = Lower(y.v)
          codec == equal(l.codec, r.codec)
          res == equal(l.resolution, r.resolution)
          exact == /\ exactSize
                   /\ absent(l.codec, r.codec) \/ codec
                   /\ absent(l.resolution, r.resolution) \/ res
          close == ~exact /\ (closeSize \/ codec \/ res)
      IN  /\ match.result.classification =
               (IF exact THEN "Exact" ELSE IF close THEN "Close" ELSE "Different")
          /\ match.result.confidenceScore =
               (IF exactSize THEN 1000 ELSE IF closeSize THEN 500 ELSE 0)
               + (IF codec THEN 300 ELSE 0) + (IF res THEN 200 ELSE 0)
          /\ l = Scenario /\ r = [Scenario EXCEPT !.size = IntV(1005000000)] =>
               match.result = [classification |-> "Exact",
                               confidenceScore |-> 1500]

\* the scenario's pair has been scored Exact with 1500, the sizes 1,000,000,000
\* and 1,005,000,000
C12_Witness ==
    /\ pc = "scored"
    /\ match.local = Scenario
    /\ match.remote = [Scenario EXCEPT !.size = IntV(1005000000)]
    /\ match.result.classification = "Exact"
    /\ match.result.confidenceScore = 1500

\* C13, as stated: every result in the output list has had its pacing delay
\* performed
C13_Original == Dispatched => Len(out) <= paced

\* C13, amended: the result is appended first and its pacing delay follows:
\* during the delay the output list holds one result more than delays have
\* been performed, the result the delay is for; between delays and when the
\* dispatcher returns every result in the list has had its delay, so no
\* result reaches the caller before its delay is over and no result is
\* appended during the delay of another
C13_Amended ==
    /\ Dispatched /\ coll = "sleep" => pc = "collect" /\ Len(out) = paced + 1
    /\ Dispatched /\ coll = "wait" => Len(out) = paced
    /\ Returned => coll = "wait" /\ rows = out /\ Len(rows) = paced

\* the second result is in the output list, the collector in that result's
\* pacing delay
C13_Witness ==
    /\ pc = "collect"
    /\ coll = "sleep"
    /\ Len(out) = 2
    /\ paced = 1

\* C14: a worker that is about to issue its request can always do so, and
\* one in its back-off sleep can always wake, whatever the other workers and
\* the collector are doing; a step of one call changes no other call and
\* nothing of the collector; what a call does on a 429 and the wait it
\* sleeps are decided by its own attempt counter, which only its own wake
\* increments
C14_WorkerIndependence ==
    /\ [](\A i \in Futs :
            /\ futs[i].st = "request" => ENABLED RequestPool(i)
            /\ futs[i].st = "sleep" => ENABLED BackoffWake(i))
    /\ [][\A i \in Futs :
            futs'[i] # futs[i] =>
              /\ \A j \in Futs \ {i} : futs'[j] = futs[j]
              /\ out' = out /\ outIdx' = outIdx /\ coll' = coll /\ paced' = paced
              /\ futs'[i].attempt # futs[i].attempt =>
                   \/ futs[i].st = "sleep" /\ futs'[i].attempt = futs[i].attempt + 1
                   \/ futs'[i].st = "done" /\ futs'[i].attempt = 0
              /\ Answered(i, {"429"}) =>
                   IF futs[i].attempt < MAX_R
                   THEN /\ futs'[i].st = "sleep"
                        /\ futs'[i].sleeps =
                             Append(futs[i].sleeps, Pow(BF, futs[i].attempt))
                   ELSE futs'[i].st = "done"]_vars

\* the first worker is in a back-off sleep and the collector in a pacing
\* sleep, while a third task has been handed to a worker that is about to
\* issue its request
C14_Witness ==
    /\ pc = "collect"
    /\ coll = "sleep"
    /\ Len(out) = 1
    /\ futs[1].st = "sleep"
    /\ \E k \in Futs : futs[k].st = "request" /\ k \notin Collected

\* the lookups in flight: the tasks a worker has taken and not finished
InFlight == {i \in Futs : futs[i].st \notin {"queued", "done"}}

\* C15: at most 5 lookups and at most as many as there are dispatched tasks
\* are in flight, and a queued task starts only in a state where fewer than 5
\* are in flight
C15_PoolWidth ==
    /\ [](Cardinality(InFlight) <= 5 /\ Cardinality(InFlight) <= Len(futs))
    /\ [][\A i \in Futs :
            futs[i].st = "queued" /\ futs'[i].st # "queued" =>
              Cardinality(InFlight) < 5]_vars

\* five lookups are in flight, one of them in its back-off sleep, and a sixth
\* task waits in the queue
C15_Witness ==
    /\ Cardinality(InFlight) = 5
    /\ \E i \in Futs : futs[i].st = "queued"
    /\ \E i \in Futs : futs[i].st = "sleep"

\* C16: the pacing sleeps begun so far are one for each collected task, each
\* of them a distinct task that has completed; when the dispatcher returns,
\* as many sleeps have been performed as tasks were dispatched
C16_PaceOncePerTask ==
    Dispatched =>
      /\ paced + (IF coll = "sleep" THEN 1 ELSE 0) = Len(outIdx)
      /\ \A k \in 1..Len(outIdx) :
           /\ outIdx[k] \in Futs
           /\ futs[outIdx[k]].st = "done"
           /\ \A l \in 1..Len(outIdx) : l # k => outIdx[l] # outIdx[k]
      /\ Returned => paced = Len(futs)

\* a dispatcher has returned after two sleeps for two tasks that finished
\* against their submission order
C16_Witness ==
    /\ Returned
    /\ Len(futs) = 2
    /\ paced = 2
    /\ outIdx = << 2, 1 >>

C18_RunsToCompletion ==
    /\ <>Returned
    /\ [](Returned =>
            \A i \in Futs :
              futs[i].st = "done" /\ ~futs[i].raised /\ i \in Collected)
    /\ [][\A i \in Futs :
            /\ Len(futs') = Len(futs)
            /\ futs[i].st # "queued" => futs'[i].st # "queued"
            /\ futs[i].st = "done" => futs'[i].st = "done"]_vars

\* a dispatcher with more tasks than workers has returned, one of its lookups
\* rate-limited and then left unanswered until the timeout
C18_Witness ==
    /\ Returned
    /\ Len(futs) > 5
    /\ \E i \in Futs : futs[i].warned /\ futs[i].resp.kind = "timeout"

\* C19: a running call has received k <= MAX_R answers, all of them 429, and
\* has slept or is sleeping one wait for each; after fewer than MAX_R of them
\* a further 429 makes it sleep and go on; and when request k + 1 is answered
\* successfully the call returns, without raising, the payload of that very
\* answer, so that the row says present exactly when the answer lists a
\* candidate
C19_RateLimitRecovery ==
    /\ [](\A i \in Futs :
            futs[i].st \in {"request", "sleep"} =>
              /\ futs[i].reqs <= MAX_R
              /\ Len(futs[i].sleeps) = futs[i].reqs
              /\ futs[i].reqs > 0 => futs[i].resp.kind = "429")
    /\ [][\A i \in Futs :
            /\ Answered(i, {"429"}) /\ futs[i].reqs < MAX_R =>
                 futs'[i].st = "sleep" /\ futs'[i].reqs = futs[i].reqs + 1
            /\ futs[i].st = "sleep" /\ futs'[i] # futs[i] =>
                 /\ futs'[i].st = "request"
                 /\ futs'[i].reqs = futs[i].reqs
                 /\ futs'[i].sleeps = futs[i].sleeps
            /\ Answered(i, {"ok"}) =>
                 /\ futs'[i].st = "done"
                 /\ ~futs'[i].raised
                 /\ futs'[i].data.shape = futs'[i].resp.shape
                 /\ futs'[i].data.has_results = futs'[i].resp.has_results
                 /\ futs'[i].data.list = futs'[i].resp.list
                 /\ futs'[i].result.present = ExpectedPresent(futs'[i].resp)]_vars

\* a call that was rate-limited has returned the hit of the successful answer
\* that followed
C19_Witness ==
    \E i \in Futs :
      /\ futs[i].st = "done"
      /\ futs[i].warned
      /\ futs[i].resp.kind = "ok"
      /\ futs[i].data.list = << "hit" >>
      /\ futs[i].result.present

\* the (series, season) pairs of a list, as positions: << a, b >> for entry b
\* of the season_numbers of series a
PairsOf(lst) ==
    UNION { { << a, b >> : b \in 1..Len(lst[a].season_numbers) } :
            a \in 1..Len(lst) }

PairBefore(x, y) == x[1] < y[1] \/ (x[1] = y[1] /\ x[2] < y[2])

\* C20: in season mode the tasks are the (series, season) pairs, series in
\* input order and the seasons of a series in the order of its
\* season_numbers, each with its season number and no episode; with a limit
\* >= 0 the futures are the first min(limit, pairs) of them, one each; a
\* lookup that has started asks for the stripped title followed by " S" and
\* the season number and nothing after it; and the rows returned are those
\* of the futures, so a series without seasons has no task and no row
C20_SeasonPairs ==
    Dispatched /\ mode = "season" =>
      /\ Len(alltasks) = Cardinality(PairsOf(items))
      /\ \E f \in [1..Len(alltasks) -> PairsOf(items)] :
           /\ \A k, l \in 1..Len(alltasks) : k < l => PairBefore(f[k], f[l])
           /\ \A k \in 1..Len(alltasks) :
                /\ alltasks[k].item = items[f[k][1]]
                /\ alltasks[k].season =
                     IntV(items[f[k][1]].season_numbers[f[k][2]])
                /\ alltasks[k].episode = NoneV
      /\ limit >= 0 => Len(futs) = Min(limit, Len(alltasks))
      /\ \A i \in Futs :
           /\ i <= Len(alltasks)
           /\ futs[i].item = alltasks[i].item
           /\ futs[i].season = alltasks[i].season
           /\ futs[i].episode = NoneV
           /\ futs[i].st # "queued" =>
                LET ds == TrailingDigits(futs[i].q)
                    rest == DropLast(futs[i].q, Len(ds))
                IN  /\ WritesNumber(ds, futs[i].season.v)
                    /\ Len(rest) >= 2
                    /\ SubSeq(rest, Len(rest) - 1, Len(rest)) = << 32, 83 >>
                    /\ IsTrimOf(DropLast(rest, 2), futs[i].item.title)
      /\ Returned =>
           /\ Len(rows) = Len(futs)
           /\ \A k \in 1..Len(rows) :
                /\ rows[k].t = futs[outIdx[k]].item.title
                /\ rows[k].s = futs[outIdx[k]].season
                /\ rows[k].e = NoneV
                /\ futs[outIdx[k]].item.season_numbers # << >>

\* a series without seasons followed by one with three, limit 2: the two rows
\* returned are the first two seasons of the second series
C20_Witness ==
    /\ pc = "done"
    /\ mode = "season"
    /\ limit = 2
    /\ Len(items) = 2
    /\ items[1].season_numbers = << >>
    /\ Len(items[2].season_numbers) = 3
    /\ Len(rows) = 2
    /\ \A k \in 1..2 : rows[k].t = items[2].title
    /\ {rows[1].s, rows[2].s} =
         {IntV(items[2].season_numbers[1]), IntV(items[2].season_numbers[2])}

====
